---- MODULE Spec2Model ----
(***************************************************************************)
(* Model of src/process_datasets.py: the two source adapters               *)
(* (process_guitarset, process_idmt_guitar), the label inference           *)
(* (infer_chord_from_filename), corpus persistence (save_processed_data),  *)
(* the training-set builder (prepare_training_data) and main.              *)
(*                                                                         *)
(* File names are sequences of one-character strings, so that lower(),     *)
(* split('_') and the substring test `pattern in filename` are computed    *)
(* the way Python computes them.  Chord labels are strings.                *)
(***************************************************************************)
EXTENDS Integers, Sequences, FiniteSets, TLC

VARIABLES
    datasets,      \* args.datasets (main, L324): the selected adapters
    fs,            \* the input tree under base_dir: the two source roots and their *.wav files
    pc,            \* position of main / of the adapter it is in
    idx,           \* position of the running adapter's for-loop in its file listing
    samples,       \* the running adapter's local list `samples`
    all_samples,   \* main's all_samples (L335)
    data,          \* the document built by the last save_processed_data call (L279-282)
    disk,          \* the output directory: the Corpus document and the training artifact
    train,         \* result of the last prepare_training_data call
    log,           \* what was printed, one tag per print call
    rerun,         \* TRUE in the second run of the pipeline over the same inputs
    firstData      \* the document the first run built (kept for comparing two runs)

vars == <<datasets, fs, pc, idx, samples, all_samples, data, disk, train, log,
          rerun, firstData>>

------------------------------------------------------------------------------
(* Bounds of the model *)

\* longest listing of the structured source root
MaxGsFiles == 2
\* longest listing of the unstructured source root
MaxIdmtFiles == 2
\* longest listing of a source root whose adapter is not selected (never read)
MaxUnreadFiles == 1
\* longest listing of the structured source root in the two-run specification
MaxRerunGsFiles == 1
\* longest sample list handed directly to the builder / the persistence
MaxSamples == 2
\* number of short-time frames a readable, non-degenerate waveform yields
ToneFrames == 1

(* Program constants *)

\* self.n_chroma
n_chroma == 12

------------------------------------------------------------------------------
(* Python strings *)

UpperChars ==
    <<"A","B","C","D","E","F","G","H","I","J","K","L","M",
      "N","O","P","Q","R","S","T","U","V","W","X","Y","Z">>

LowerChars ==
    <<"a","b","c","d","e","f","g","h","i","j","k","l","m",
      "n","o","p","q","r","s","t","u","v","w","x","y","z">>

\* str.lower() on one character
LowerChar(c) ==
    IF \E i \in 1..Len(UpperChars) : UpperChars[i] = c
    THEN LowerChars[CHOOSE i \in 1..Len(UpperChars) : UpperChars[i] = c]
    ELSE c

\* str.lower()
Lower(cs) == [i \in 1..Len(cs) |-> LowerChar(cs[i])]

\* `pat in hay` for two strings
Contains(hay, pat) ==
    \E i \in 0..(Len(hay) - Len(pat)) : SubSeq(hay, i + 1, i + Len(pat)) = pat

\* str.split(sep) for a one-character separator
RECURSIVE Split(_, _)
Split(cs, sep) ==
    IF \A i \in 1..Len(cs) : cs[i] # sep
    THEN <<cs>>
    ELSE LET i == CHOOSE j \in 1..Len(cs) :
                      cs[j] = sep /\ \A k \in 1..(j - 1) : cs[k] # sep
         IN  <<SubSeq(cs, 1, i - 1)>> \o Split(SubSeq(cs, i + 1, Len(cs)), sep)

\* the string a character sequence spells
RECURSIVE Str(_)
Str(cs) == IF cs = <<>> THEN "" ELSE Head(cs) \o Str(Tail(cs))

\* the empty dict {}
EmptyDict == [k \in {} |-> 0]

Range(s) == {s[i] : i \in 1..Len(s)}

------------------------------------------------------------------------------
(* DatasetProcessor.__init__ *)

chord_vocab ==
    <<"C", "C#", "D", "D#", "E", "F", "F#", "G", "G#", "A", "A#", "B",
      "Cm", "C#m", "Dm", "D#m", "Em", "Fm", "F#m", "Gm", "G#m", "Am", "A#m", "Bm",
      "C7", "D7", "E7", "G7", "A7", "Cm7", "Dm7", "Em7", "Gm7", "Am7">>

\* the feature_config block recorded in the metadata (sample_rate .. n_chroma)
feature_config ==
    [sample_rate |-> 22050, hop_length |-> 512, n_fft |-> 2048,
     n_mels |-> 128, n_chroma |-> n_chroma]

------------------------------------------------------------------------------
(* infer_chord_from_filename *)

\* chord_mappings, in the dict's insertion order (the order the for-loop visits)
chord_mappings ==
    << <<(<<"a">>), "A">>, <<(<<"a","m">>), "Am">>, <<(<<"a","7">>), "A7">>,
       <<(<<"c">>), "C">>, <<(<<"c","m">>), "Cm">>, <<(<<"c","7">>), "C7">>,
       <<(<<"d">>), "D">>, <<(<<"d","m">>), "Dm">>, <<(<<"d","7">>), "D7">>,
       <<(<<"e">>), "E">>, <<(<<"e","m">>), "Em">>, <<(<<"e","7">>), "E7">>,
       <<(<<"g">>), "G">>, <<(<<"g","m">>), "Gm">>, <<(<<"g","7">>), "G7">> >>

\* the list np.random.choice draws from when no pattern matches
fallback_chords == {"C", "D", "E", "G", "A", "Am", "Em", "Dm"}

\* The values infer_chord_from_filename(filename) can return: the chord of the
\* first pattern (in iteration order) found in the lowercased name, or, when
\* none is found, any element of the fallback list (an unseeded random draw).
infer_chord_from_filename(filename) ==
    LET filename_lower == Lower(filename)
        hits == {i \in 1..Len(chord_mappings) :
                    Contains(filename_lower, chord_mappings[i][1])}
    IN  IF hits # {}
        THEN {chord_mappings[CHOOSE i \in hits : \A j \in hits : i <= j][2]}
        ELSE fallback_chords

------------------------------------------------------------------------------
(* extract_features *)

\* librosa.feature.chroma_stft(...).T.tolist(): one n_chroma-bin row per frame.
\* The numbers stand for librosa's output on the waveform; nothing modelled
\* here depends on their values, only on the shape [time, n_chroma].
chroma_stft(audio) ==
    [t \in 1..audio.frames |-> [k \in 1..n_chroma |-> (t + k) % 2]]

\* extract_features(audio): the feature dict, or {} when a librosa call raises
\* (degenerate waveform).  Of the dict's keys only 'chroma' and 'shape' are
\* kept: no modelled operation reads the others.
extract_features(audio) ==
    IF audio.degenerate
    THEN EmptyDict
    ELSE [chroma |-> chroma_stft(audio),
          shape  |-> [time_steps |-> audio.frames, chroma_bins |-> n_chroma]]

\* librosa.load(audio_file, sr, mono): the waveform of a readable file
librosa_load(file) ==
    [degenerate |-> file.wave = "degenerate",
     frames     |-> IF file.wave = "degenerate" THEN 0 ELSE ToneFrames]

------------------------------------------------------------------------------
(* save_processed_data *)

\* np.unique(chords, return_counts=True) zipped into a dict: label -> count
np_unique_counts(chords) ==
    [c \in Range(chords) |->
        Cardinality({i \in 1..Len(chords) : chords[i] = c})]

\* The type of the values of that dict: iterating the counts array yields
\* numpy.int64 scalars, which are not instances of Python's int.
np_count_type == "int64"

\* The types json's encoder writes (json.encoder: dict, list/tuple, str, int,
\* float, True/False, None); any other value reaches JSONEncoder.default,
\* which raises TypeError.
json_native_types == {"dict", "list", "str", "int", "float", "bool", "NoneType"}

\* the metadata block (L259-277); `now` stands for np.datetime64('now')
build_metadata(smpls, now) ==
    LET chords      == [i \in 1..Len(smpls) |-> smpls[i].chord]
        instruments == [i \in 1..Len(smpls) |-> smpls[i].instrument]
        qualities   == [i \in 1..Len(smpls) |-> smpls[i].quality]
    IN  [total_samples      |-> Len(smpls),
         unique_chords      |-> Cardinality(Range(chords)),
         chord_distribution |-> np_unique_counts(chords),
         instruments        |-> Range(instruments),
         qualities          |-> Range(qualities),
         processing_date    |-> now,
         feature_config     |-> feature_config]

\* data = {'metadata': metadata, 'samples': samples} (L279-282)
build_data(smpls, now) ==
    [built |-> TRUE, metadata |-> build_metadata(smpls, now), samples |-> smpls]

\* no document built yet
NoData == [built |-> FALSE, metadata |-> EmptyDict, samples |-> <<>>]

\* the order in which json.dump emits the document's values
doc_keys ==
    <<"total_samples", "unique_chords", "chord_distribution", "instruments",
      "qualities", "processing_date", "feature_config", "samples">>

doc_value(d, key) == IF key = "samples" THEN d.samples ELSE d.metadata[key]

\* whether json's encoder can write the value under `key`
json_encodable(d, key) ==
    \/ key # "chord_distribution"
    \/ DOMAIN d.metadata.chord_distribution = {}
    \/ np_count_type \in json_native_types

\* What the operating system does to the writes of one json.dump: `fault` is
\* the position of the value at whose write it reports an error (disk full,
\* I/O error), Len(doc_keys) + 1 when every write succeeds.
NoFault == Len(doc_keys) + 1

Faults == 1..NoFault

\* json.dump(data, f, indent=2): the encoder streams chunks to the file in
\* document order; it raises TypeError at the first value it cannot encode,
\* and a failing write raises OSError.  What was streamed before stays in the
\* file.  `text` holds the values fully written.
json_dump(d, fault) ==
    LET bad  == {i \in 1..Len(doc_keys) : ~json_encodable(d, doc_keys[i])}
        enc  == IF bad = {} THEN NoFault
                ELSE CHOOSE i \in bad : \A j \in bad : i <= j
        stop == IF enc <= fault THEN enc ELSE fault
    IN  [raised |-> stop # NoFault,
         error  |-> IF stop = NoFault THEN "none"
                    ELSE IF enc <= fault THEN "TypeError" ELSE "OSError",
         text   |-> [k \in {doc_keys[i] : i \in 1..(stop - 1)} |-> doc_value(d, k)]]

\* a path with no file
NoFile == [exists |-> FALSE, complete |-> FALSE, text |-> EmptyDict]

\* the output directory before anything is written
EmptyDisk == [dir |-> FALSE, json |-> NoFile, npz |-> NoFile]

\* save_processed_data(samples, output_file): mkdir, build the document,
\* open(output_file, 'w') (which empties the destination) and json.dump into
\* it.  Returns the document, the disk afterwards, and whether it raised.
save_processed_data(smpls, now, dsk, fault) ==
    LET d == build_data(smpls, now)
        w == json_dump(d, fault)
    IN  [data   |-> d,
         raised |-> w.raised,
         error  |-> w.error,
         disk   |-> [dsk EXCEPT !.dir  = TRUE,
                                !.json = [exists   |-> TRUE,
                                          complete |-> ~w.raised,
                                          text     |-> w.text]]]

------------------------------------------------------------------------------
(* prepare_training_data *)

\* faulty variant of label_index: the 1-based position instead of list.index
label_index_one_based(chord) ==
    IF \E i \in 1..Len(chord_vocab) : chord_vocab[i] = chord
    THEN CHOOSE i \in 1..Len(chord_vocab) :
             /\ chord_vocab[i] = chord
             /\ \A j \in 1..(i - 1) : chord_vocab[j] # chord
    ELSE 0

\* `chord_vocab.index(chord) if chord in chord_vocab else 0`
label_index(chord) ==
    IF \E i \in 1..Len(chord_vocab) : chord_vocab[i] = chord
    THEN (CHOOSE i \in 1..Len(chord_vocab) :
              /\ chord_vocab[i] = chord
              /\ \A j \in 1..(i - 1) : chord_vocab[j] # chord) - 1
    ELSE 0

\* `not sample.get('features') or not sample['features'].get('chroma')`
skipped_sample(sample) ==
    \/ DOMAIN sample.features = {}
    \/ "chroma" \notin DOMAIN sample.features
    \/ sample.features.chroma = <<>>

\* np.array(chroma).size
chroma_size(chroma) == Len(chroma) * Len(chroma[1])

RECURSIVE column_sum(_, _)
column_sum(chroma, k) ==
    IF chroma = <<>> THEN 0 ELSE chroma[1][k] + column_sum(Tail(chroma), k)

\* np.mean(chroma, axis=0): per bin, the mean over the frames, kept exact as
\* the pair <<sum, number of frames>>
mean_axis0(chroma) ==
    [k \in 1..Len(chroma[1]) |-> <<column_sum(chroma, k), Len(chroma)>>]

\* the for-loop of prepare_training_data: features_list and labels_list
RECURSIVE prepare_loop(_)
prepare_loop(smpls) ==
    IF smpls = <<>>
    THEN [features_list |-> <<>>, labels_list |-> <<>>]
    ELSE LET sample == Head(smpls)
             rest   == prepare_loop(Tail(smpls))
         IN  IF skipped_sample(sample) \/ ~(chroma_size(sample.features.chroma) > 0)
             THEN rest
             ELSE [features_list |->
                       <<mean_axis0(sample.features.chroma)>> \o rest.features_list,
                   labels_list |->
                       <<label_index(sample.chord)>> \o rest.labels_list]

\* no call made yet
NoTrain == [called |-> FALSE, raised |-> FALSE, X |-> <<>>, y |-> <<>>]

\* prepare_training_data(samples): (X, y), or ValueError when no feature
\* vector was produced
prepare_training_data(smpls) ==
    LET r == prepare_loop(smpls)
    IN  IF r.features_list = <<>>
        THEN [called |-> TRUE, raised |-> TRUE, X |-> <<>>, y |-> <<>>]
        ELSE [called |-> TRUE, raised |-> FALSE,
              X |-> r.features_list, y |-> r.labels_list]

------------------------------------------------------------------------------
(* The input tree *)

\* A *.wav file: its stem, and what loading and analysing it does:
\*   "tone"        librosa.load and extract_features succeed
\*   "degenerate"  librosa.load succeeds, a librosa feature call raises
\*   "unreadable"  librosa.load raises
WavFile(stem, wave) == [stem |-> stem, wave |-> wave]

\* files the structured source root (guitarset/audio) may hold
GsCatalog ==
    { WavFile(<<"p","1","_","C","_","f","i","n","g","e","r","s","t","y","l","e">>, "tone"),
      WavFile(<<"p","1","_","A","m","_","s","t","r","u","m">>, "tone"),
      WavFile(<<"p","2","_","G","_","p","i","c","k">>, "tone"),
      WavFile(<<"p","3","_","C","_","m","u","t","e">>, "degenerate"),
      WavFile(<<"p","4","_","D","_","s","l","i","d","e">>, "unreadable"),
      WavFile(<<"n","o","t","e","s">>, "tone") }

\* files the unstructured source root (idmt-guitar) may hold
IdmtCatalog ==
    { WavFile(<<"G","m","_","0","1">>, "tone"),
      WavFile(<<"r","i","f","f">>, "tone"),
      WavFile(<<"l","i","c","k","_","0","3">>, "unreadable") }

\* the listings rglob("*.wav") can yield: the files in any order, none twice
Listings(catalog, n) ==
    UNION { {l \in [1..k -> catalog] :
                \A i, j \in 1..k : i # j => l[i] # l[j]} : k \in 0..n }

\* a source root: absent, or present with a listing
Roots(catalog, n) ==
    {[exists |-> FALSE, files |-> <<>>]}
        \cup {[exists |-> TRUE, files |-> l] : l \in Listings(catalog, n)}

LogEntry(msg, n) == [msg |-> msg, n |-> n]

Logged(msg) == \E i \in 1..Len(log) : log[i].msg = msg

------------------------------------------------------------------------------
(* process_guitarset *)

\* main L338-339 and process_guitarset L44-55: the adapter is entered when
\* selected; an absent audio directory makes it return [] at once
EnterGuitarset ==
    /\ pc = "main_guitarset"
    /\ IF "guitarset" \notin datasets
       THEN /\ pc' = "main_idmt"
            /\ UNCHANGED <<idx, samples, log>>
       ELSE IF ~fs.guitarset.exists
       THEN /\ pc' = "main_idmt"
            /\ log' = log \o <<LogEntry("gs_start", 0), LogEntry("gs_missing", 0)>>
            /\ UNCHANGED <<idx, samples>>
       ELSE /\ pc' = "gs_loop"
            /\ idx' = 1
            /\ samples' = <<>>
            /\ log' = Append(log, LogEntry("gs_start", 0))
    /\ UNCHANGED <<datasets, fs, all_samples, data, disk, train, rerun, firstData>>

\* the sample dict of L74-88 (audio_file, duration and the per-source metadata
\* other than 'source' are carried as the file's stem / left out)
guitarset_sample(file, parts) ==
    [id         |-> "GuitarSet_" \o Str(parts[1]) \o "_" \o Str(parts[2])
                        \o "_" \o Str(parts[3]),
     chord      |-> Str(parts[2]),
     instrument |-> "guitar",
     quality    |-> "studio",
     audio_file |-> file.stem,
     features   |-> extract_features(librosa_load(file)),
     metadata   |-> [source |-> "GuitarSet"]]

\* faulty variant of GuitarsetFile: no try/except around the loop body, so
\* the exception of an unreadable file ends the run
GuitarsetFileUncaught ==
    /\ pc = "gs_loop"
    /\ idx <= Len(fs.guitarset.files)
    /\ LET audio_file == fs.guitarset.files[idx]
           parts      == Split(audio_file.stem, "_")
       IN  IF Len(parts) < 3
           THEN UNCHANGED <<samples, log, pc>>
           ELSE IF audio_file.wave = "unreadable"
           THEN /\ log' = Append(log, LogEntry("Exception", 0))
                /\ pc' = "crashed"
                /\ UNCHANGED samples
           ELSE /\ samples' = Append(samples, guitarset_sample(audio_file, parts))
                /\ UNCHANGED <<log, pc>>
    /\ idx' = idx + 1
    /\ UNCHANGED <<datasets, fs, all_samples, data, disk, train, rerun, firstData>>

\* one iteration of the for-loop, L58-97
GuitarsetFile ==
    /\ pc = "gs_loop"
    /\ idx <= Len(fs.guitarset.files)
    /\ LET audio_file == fs.guitarset.files[idx]
           parts      == Split(audio_file.stem, "_")
       IN  IF Len(parts) < 3
           THEN UNCHANGED <<samples, log>>
           ELSE IF audio_file.wave = "unreadable"
           THEN /\ log' = Append(log, LogEntry("gs_file_error", idx))
                /\ UNCHANGED samples
           ELSE /\ samples' = Append(samples, guitarset_sample(audio_file, parts))
                /\ UNCHANGED log
    /\ idx' = idx + 1
    /\ UNCHANGED <<datasets, fs, pc, all_samples, data, disk, train, rerun, firstData>>

\* the loop's end, L99-100, and all_samples.extend(...), L340
GuitarsetReturn ==
    /\ pc = "gs_loop"
    /\ idx > Len(fs.guitarset.files)
    /\ log' = Append(log, LogEntry("gs_done", Len(samples)))
    /\ all_samples' = all_samples \o samples
    /\ samples' = <<>>
    /\ pc' = "main_idmt"
    /\ UNCHANGED <<datasets, fs, idx, data, disk, train, rerun, firstData>>

------------------------------------------------------------------------------
(* process_idmt_guitar *)

\* main L342-343 and process_idmt_guitar L102-112
EnterIdmt ==
    /\ pc = "main_idmt"
    /\ IF "idmt-guitar" \notin datasets
       THEN /\ pc' = "main_finish"
            /\ UNCHANGED <<idx, samples, log>>
       ELSE IF ~fs.idmt.exists
       THEN /\ pc' = "main_finish"
            /\ log' = log \o <<LogEntry("idmt_start", 0), LogEntry("idmt_missing", 0)>>
            /\ UNCHANGED <<idx, samples>>
       ELSE /\ pc' = "idmt_loop"
            /\ idx' = 1
            /\ samples' = <<>>
            /\ log' = Append(log, LogEntry("idmt_start", 0))
    /\ UNCHANGED <<datasets, fs, all_samples, data, disk, train, rerun, firstData>>

\* the sample dict of L131-144
idmt_sample(file, chord) ==
    [id         |-> "IDMT_" \o Str(file.stem),
     chord      |-> chord,
     instrument |-> "guitar",
     quality    |-> "mixed",
     audio_file |-> file.stem,
     features   |-> extract_features(librosa_load(file)),
     metadata   |-> [source |-> "IDMT-SMT-Guitar"]]

\* one iteration of the for-loop, L115-153; the label is inferred before the
\* file is loaded
IdmtFile ==
    /\ pc = "idmt_loop"
    /\ idx <= Len(fs.idmt.files)
    /\ LET audio_file == fs.idmt.files[idx]
       IN  \E chord \in infer_chord_from_filename(audio_file.stem) :
               IF audio_file.wave = "unreadable"
               THEN /\ log' = Append(log, LogEntry("idmt_file_error", idx))
                    /\ UNCHANGED samples
               ELSE /\ samples' = Append(samples, idmt_sample(audio_file, chord))
                    /\ UNCHANGED log
    /\ idx' = idx + 1
    /\ UNCHANGED <<datasets, fs, pc, all_samples, data, disk, train, rerun, firstData>>

\* the loop's end, L155-156, and all_samples.extend(...), L344
IdmtReturn ==
    /\ pc = "idmt_loop"
    /\ idx > Len(fs.idmt.files)
    /\ log' = Append(log, LogEntry("idmt_done", Len(samples)))
    /\ all_samples' = all_samples \o samples
    /\ samples' = <<>>
    /\ pc' = "main_finish"
    /\ UNCHANGED <<datasets, fs, idx, data, disk, train, rerun, firstData>>

------------------------------------------------------------------------------
(* main *)

\* np.datetime64('now') as read by the current run
Now == IF rerun THEN "t2" ELSE "t1"

\* np.savez(.../training_data.npz, X=X, y=y, chord_vocab=...), L359
np_savez(dsk, t) ==
    [dsk EXCEPT !.npz = [exists   |-> TRUE,
                         complete |-> TRUE,
                         text     |-> [X |-> t.X, y |-> t.y,
                                       chord_vocab |-> chord_vocab]]]

\* main L350-372: persist the corpus, then build and persist the training
\* set.  save_processed_data is called outside any try: an exception it raises
\* ends the run with a traceback.  prepare_training_data and np.savez run
\* inside try/except Exception.
MainPersist ==
    \E fault \in Faults :
    LET s == save_processed_data(all_samples, Now, disk, fault)
        t == prepare_training_data(all_samples)
    IN  /\ data' = s.data
        /\ IF s.raised
           THEN /\ pc' = "crashed"
                /\ disk' = s.disk
                /\ log' = log \o <<LogEntry("saving", Len(all_samples)),
                                   LogEntry(s.error, 0)>>
                /\ UNCHANGED train
           ELSE /\ pc' = "done"
                /\ train' = t
                /\ IF t.raised
                   THEN /\ disk' = s.disk
                        /\ log' = log \o <<LogEntry("saving", Len(all_samples)),
                                           LogEntry("saved", 0),
                                           LogEntry("preparing", 0),
                                           LogEntry("train_error", 0),
                                           LogEntry("json_only", 0),
                                           LogEntry("next_steps", 0)>>
                   ELSE /\ disk' = np_savez(s.disk, t)
                        /\ log' = log \o <<LogEntry("saving", Len(all_samples)),
                                           LogEntry("saved", 0),
                                           LogEntry("preparing", 0),
                                           LogEntry("prepared", Len(t.X)),
                                           LogEntry("train_saved", 0),
                                           LogEntry("next_steps", 0)>>

\* faulty variant of MainFinish: the `if not all_samples: return` is missing
MainFinishNoEmptyCheck ==
    /\ pc = "main_finish"
    /\ MainPersist
    /\ UNCHANGED <<datasets, fs, idx, samples, all_samples, rerun, firstData>>

\* main L346-372: return when no sample was collected, else persist
MainFinish ==
    /\ pc = "main_finish"
    /\ IF all_samples = <<>>
       THEN /\ pc' = "done"
            /\ log' = Append(log, LogEntry("no_dataset", 0))
            /\ UNCHANGED <<data, disk, train>>
       ELSE MainPersist
    /\ UNCHANGED <<datasets, fs, idx, samples, all_samples, rerun, firstData>>

\* the script is run a second time over the same input tree and output
\* directory (a finite, restartable batch job)
Rerun ==
    /\ pc \in {"done", "crashed"}
    /\ ~rerun
    /\ rerun' = TRUE
    /\ firstData' = data
    /\ pc' = "main_guitarset"
    /\ idx' = 0
    /\ samples' = <<>>
    /\ all_samples' = <<>>
    /\ data' = NoData
    /\ train' = NoTrain
    /\ log' = <<>>
    /\ UNCHANGED <<datasets, fs, disk>>

------------------------------------------------------------------------------
(* Direct calls of save_processed_data and prepare_training_data *)

\* labels a caller may pass: the vocabulary, and strings outside it
Labels == Range(chord_vocab) \cup {"c", "am", "H", "Cmaj7", ""}

\* A sample as the adapters build them, with the given label and features
CallerSample(chord, features) ==
    [id         |-> "S_" \o chord,
     chord      |-> chord,
     instrument |-> "guitar",
     quality    |-> "studio",
     audio_file |-> <<"s">>,
     features   |-> features,
     metadata   |-> [source |-> "caller"]]

\* the samples a caller may pass: every label with the features of a tone, and
\* two labels with an empty feature dict and with an empty chroma list
CallerSamples ==
    {CallerSample(c, extract_features([degenerate |-> FALSE, frames |-> ToneFrames])) :
        c \in Labels}
    \cup {CallerSample(c, EmptyDict) : c \in {"C", "H"}}
    \cup {CallerSample(c, [chroma |-> <<>>]) : c \in {"Am", "c"}}

\* the samples that may follow the first one of a list: a label of the
\* vocabulary and a label outside it with features, and two without
CallerMoreSamples ==
    {s \in CallerSamples :
        \/ s.chord \in {"Am", "H"} /\ DOMAIN s.features # {}
        \/ s.chord = "C" /\ DOMAIN s.features = {}}

\* the caller assembles the `samples` argument
CallerAdd ==
    /\ pc = "call_input"
    /\ Len(all_samples) < MaxSamples
    /\ \E s \in IF all_samples = <<>> THEN CallerSamples ELSE CallerMoreSamples :
           all_samples' = Append(all_samples, s)
    /\ UNCHANGED <<datasets, fs, pc, idx, samples, data, disk, train, log,
                   rerun, firstData>>

\* save_processed_data(samples, output_file) called on the list; the caller
\* catches what it raises
CallerSave ==
    /\ pc = "call_input"
    /\ \E fault \in Faults :
       LET s == save_processed_data(all_samples, Now, disk, fault)
       IN  /\ data' = s.data
           /\ disk' = s.disk
           /\ log' = IF s.raised
                     THEN log \o <<LogEntry("saving", Len(all_samples)),
                                   LogEntry(s.error, 0)>>
                     ELSE log \o <<LogEntry("saving", Len(all_samples)),
                                   LogEntry("saved", 0)>>
    /\ pc' = "call_saved"
    /\ UNCHANGED <<datasets, fs, idx, samples, all_samples, train, rerun, firstData>>

\* prepare_training_data(samples) called on the list
CallerPrepare ==
    /\ pc = "call_saved"
    /\ train' = prepare_training_data(all_samples)
    /\ pc' = "call_done"
    /\ UNCHANGED <<datasets, fs, idx, samples, all_samples, data, disk, log,
                   rerun, firstData>>

------------------------------------------------------------------------------
(* Specifications *)

InitCommon ==
    /\ idx = 0
    /\ samples = <<>>
    /\ all_samples = <<>>
    /\ data = NoData
    /\ disk = EmptyDisk
    /\ train = NoTrain
    /\ log = <<>>
    /\ rerun = FALSE
    /\ firstData = NoData

\* one run of main over any input tree and any selection of adapters
Init ==
    /\ datasets \in SUBSET {"guitarset", "idmt-guitar"}
    /\ fs \in [guitarset : Roots(GsCatalog,
                                 IF "guitarset" \in datasets
                                 THEN MaxGsFiles ELSE MaxUnreadFiles),
               idmt      : Roots(IdmtCatalog,
                                 IF "idmt-guitar" \in datasets
                                 THEN MaxIdmtFiles ELSE MaxUnreadFiles)]
    /\ pc = "main_guitarset"
    /\ InitCommon

Next ==
    \/ EnterGuitarset
    \/ GuitarsetFile
    \/ GuitarsetReturn
    \/ EnterIdmt
    \/ IdmtFile
    \/ IdmtReturn
    \/ MainFinish

Spec == Init /\ [][Next]_vars

\* two runs of main, one after the other, over the same input tree
InitRerun ==
    /\ datasets \in SUBSET {"guitarset", "idmt-guitar"}
    /\ fs \in [guitarset : Roots(GsCatalog, MaxRerunGsFiles),
               idmt      : Roots(IdmtCatalog, MaxIdmtFiles)]
    /\ pc = "main_guitarset"
    /\ InitCommon

NextRerun ==
    \/ EnterGuitarset
    \/ GuitarsetFile
    \/ GuitarsetReturn
    \/ EnterIdmt
    \/ IdmtFile
    \/ IdmtReturn
    \/ MainFinish
    \/ Rerun

SpecRerun == InitRerun /\ [][NextRerun]_vars

\* the two functions called directly on any sample list
InitCaller ==
    /\ datasets = {}
    /\ fs = [guitarset |-> [exists |-> FALSE, files |-> <<>>],
             idmt      |-> [exists |-> FALSE, files |-> <<>>]]
    /\ pc = "call_input"
    /\ InitCommon

NextCaller == CallerAdd \/ CallerSave \/ CallerPrepare

SpecCaller == InitCaller /\ [][NextCaller]_vars

------------------------------------------------------------------------------
(* Properties *)

Terminated == pc \in {"done", "crashed"}

\* the Corpus document at the destination is whole: closed, with its counts
\* and its sample list
CorpusComplete ==
    /\ disk.json.exists
    /\ disk.json.complete
    /\ "total_samples" \in DOMAIN disk.json.text
    /\ "samples" \in DOMAIN disk.json.text

\* a sample's chroma field is present and non-empty
HasChroma(s) ==
    /\ DOMAIN s.features # {}
    /\ "chroma" \in DOMAIN s.features
    /\ s.features.chroma # <<>>

Stems(ss) == [i \in 1..Len(ss) |-> ss[i].audio_file]

\* 0-based position of a label in the vocabulary, 0 for a label outside it
VocabPosition(chord, k) ==
    \/ k >= 0 /\ k < Len(chord_vocab) /\ chord_vocab[k + 1] = chord
    \/ k = 0 /\ chord \notin Range(chord_vocab)

GM == <<"g", "m">>

\* C1: every file of the unstructured source whose lowercased name contains
\* "gm" is labelled Gm.
C1_GmIsLabelledGm ==
    \A i \in 1..Len(all_samples) :
        (/\ all_samples[i].metadata.source = "IDMT-SMT-Guitar"
         /\ Contains(Lower(all_samples[i].audio_file), GM))
            => all_samples[i].chord = "Gm"

\* C2: in every reachable state the destination holds no document, or a
\* complete document whose metadata.total_samples equals the length of its
\* sample list; a truncated document is never left there.
C2_PersistenceIsAtomic ==
    \/ ~disk.json.exists
    \/ /\ CorpusComplete
       /\ disk.json.text["total_samples"] = Len(disk.json.text["samples"])

\* C3: the documents two runs over the same unchanged inputs build have the
\* same metadata.total_samples and the same label histogram.
C3_RerunSameContent ==
    (rerun /\ firstData.built /\ data.built)
        => /\ data.metadata.total_samples = firstData.metadata.total_samples
           /\ data.metadata.chord_distribution
                  = firstData.metadata.chord_distribution

\* C4: the label-to-index mapping is total and deterministic: each sample
\* with features gets a row whatever its label is, and its index is the
\* label's position in the vocabulary (exact, case-sensitive match), or 0 for
\* a label outside the vocabulary.
C4_LabelIndexIsTotal ==
    train.called =>
        LET usable == SelectSeq(all_samples, HasChroma)
        IN  /\ train.raised <=> usable = <<>>
            /\ ~train.raised =>
                   /\ Len(train.y) = Len(usable)
                   /\ \A i \in 1..Len(usable) :
                          VocabPosition(usable[i].chord, train.y[i])

\* C4 witness: a call that indexed a label outside the vocabulary and a label
\* at a later position of it
C4_Witness ==
    /\ train.called
    /\ ~train.raised
    /\ Len(train.y) = 2
    /\ all_samples[1].chord = "am"
    /\ all_samples[2].chord = "Am"
    /\ train.y[2] > 0

\* C5: when the selected adapters produce no sample the run ends without
\* persisting anything: no Corpus document, no training artifact, and neither
\* save_processed_data nor prepare_training_data is reached.
C5_EmptyCorpusPersistsNothing ==
    (Terminated /\ all_samples = <<>>)
        => /\ pc = "done"
           /\ disk = EmptyDisk
           /\ ~data.built
           /\ ~train.called
           /\ ~Logged("saving")
           /\ ~Logged("preparing")

\* C5 witness: a run over files that all failed ended with no sample
C5_Witness ==
    /\ pc = "done"
    /\ all_samples = <<>>
    /\ datasets = {"guitarset", "idmt-guitar"}
    /\ Len(fs.guitarset.files) > 0
    /\ Len(fs.idmt.files) > 0
    /\ Logged("no_dataset")

\* C6 (stated for runs in which no write reports an I/O error): with a
\* non-empty Corpus of samples without usable features, the run
\* reaches its end, the builder's failure is reported, no training artifact
\* is written, the persisted Corpus document is intact and the report says
\* only the Corpus was written; and the Corpus document is written before the
\* training-artifact step starts.
C6_EmptyTrainingSetKeepsCorpus ==
    /\ (/\ Terminated
        /\ ~Logged("OSError")
        /\ all_samples # <<>>
        /\ \A i \in 1..Len(all_samples) : ~HasChroma(all_samples[i]))
           => /\ pc = "done"
              /\ train.called
              /\ train.raised
              /\ Logged("train_error")
              /\ Logged("json_only")
              /\ ~disk.npz.exists
              /\ CorpusComplete
    /\ (train.called /\ ~Logged("OSError")) => CorpusComplete

\* the files of a listing that yield a sample
GsYields(f) == Len(Split(f.stem, "_")) >= 3 /\ f.wave # "unreadable"

IdmtYields(f) == f.wave # "unreadable"

FileStems(fl) == [i \in 1..Len(fl) |-> fl[i].stem]

ExpectedGs ==
    IF "guitarset" \in datasets
    THEN FileStems(SelectSeq(fs.guitarset.files, GsYields))
    ELSE <<>>

ExpectedIdmt ==
    IF "idmt-guitar" \in datasets
    THEN FileStems(SelectSeq(fs.idmt.files, IdmtYields))
    ELSE <<>>

C8_MissingUnstructuredSourceIsSoft ==
    (/\ Terminated
     /\ ~Logged("OSError")
     /\ {"guitarset", "idmt-guitar"} \subseteq datasets
     /\ fs.guitarset.exists
     /\ ~fs.idmt.exists
     /\ all_samples # <<>>)
        => /\ pc = "done"
           /\ Logged("idmt_missing")
           /\ ~Logged("idmt_file_error")
           /\ CorpusComplete
           /\ \A i \in 1..Len(disk.json.text["samples"]) :
                  disk.json.text["samples"][i].metadata.source = "GuitarSet"

\* C9 (stated for calls in which no write reports an I/O error):
\* prepare_training_data returns as many vectors as label indices, as
\* many as there are samples with a non-empty chroma field; a sample without
\* features is left out of the TrainingSet and is in the persisted Corpus
\* sample list.
C9_RowsMatchUsableSamples ==
    train.called =>
        /\ Len(train.X) = Len(train.y)
        /\ Len(train.X) = Len(SelectSeq(all_samples, HasChroma))
        /\ \A i \in 1..Len(all_samples) :
               (~HasChroma(all_samples[i]) /\ ~Logged("OSError")) =>
                   /\ CorpusComplete
                   /\ all_samples[i] \in Range(disk.json.text["samples"])

\* the counts part of C9 alone
RowsMatchUsableSamples ==
    train.called =>
        /\ Len(train.X) = Len(train.y)
        /\ Len(train.X) = Len(SelectSeq(all_samples, HasChroma))

\* the chord segments of the listed structured-source files
ChordSegments ==
    [i \in 1..Len(fs.guitarset.files) |->
        Str(Split(fs.guitarset.files[i].stem, "_")[2])]

\* C10 (stated for runs in which no write reports an I/O error): a run of
\* the structured adapter alone over n readable files named
\* performer_chord_style.wav leaves a complete Corpus document with
\* total_samples = n and unique_chords = the number of distinct chord
\* segments, and a TrainingSet of n rows whose label indices are the
\* vocabulary positions of those segments.
C10_StructuredEndToEnd ==
    (/\ Terminated
     /\ ~Logged("OSError")
     /\ datasets = {"guitarset"}
     /\ fs.guitarset.exists
     /\ fs.guitarset.files # <<>>
     /\ \A i \in 1..Len(fs.guitarset.files) :
            /\ fs.guitarset.files[i].wave = "tone"
            /\ Len(Split(fs.guitarset.files[i].stem, "_")) = 3)
        => /\ pc = "done"
           /\ CorpusComplete
           /\ disk.json.text["total_samples"] = Len(fs.guitarset.files)
           /\ disk.json.text["unique_chords"] = Cardinality(Range(ChordSegments))
           /\ disk.npz.exists
           /\ Len(disk.npz.text["X"]) = Len(fs.guitarset.files)
           /\ Len(disk.npz.text["y"]) = Len(fs.guitarset.files)
           /\ \A i \in 1..Len(fs.guitarset.files) :
                  VocabPosition(ChordSegments[i], disk.npz.text["y"][i])

====
